---------------------------- MODULE Spec2Model ----------------------------
(***************************************************************************)
(* Betting-edge and bankroll-simulation engine of nhl_prediction           *)
(* (src/src/nhl_prediction/betting.py).                                    *)
(*                                                                         *)
(* One behaviour of Spec is one call of one strategy simulator             *)
(* (simulate_threshold_betting or simulate_kelly_betting) on one games     *)
(* table: Init is the state on entry to the `for idx, game in              *)
(* games_df.iterrows()` loop, every step is one iteration of that loop or  *)
(* the final return.  One behaviour of SpecCalc is one direct call of one  *)
(* of the pure functions (calculate_payout, kelly_criterion,               *)
(* american_to_probability, remove_vig_proportional,                       *)
(* calculate_roi_metrics) on arguments drawn from bounded sets.            *)
(*                                                                         *)
(* Numbers.  Python floats are modelled as exact rationals <<n, d>> in     *)
(* lowest terms with d > 0.  The probabilities, stakes and bankrolls used  *)
(* for boundary cases (an edge equal to the threshold, a stake equal to    *)
(* 1.0) are dyadic, so that the float computation is exact there as well.  *)
(* A float division by zero is modelled by what the two possible row       *)
(* representations do: see object_rows and kelly_criterion.                *)
(***************************************************************************)
EXTENDS Integers, Sequences, FiniteSets, TLC

(***************************************************************************)
(* Exact rational arithmetic.                                              *)
(***************************************************************************)
Abs(n) == IF n < 0 THEN -n ELSE n

RECURSIVE Gcd(_, _)
Gcd(a, b) == IF b = 0 THEN a ELSE Gcd(b, a % b)

\* <<n, d>> divided through by g > 0, with the sign s of d moved to n.
Reduce(n, d, g, s) == <<s * (n \div g), s * (d \div g)>>

\* The rational n/d in lowest terms with a positive denominator.
\* d = 0 (a division by zero that the callers must have excluded) gives the
\* marker <<0, 0>>, which NoDivisionByZero looks for.
Rat(n, d) ==
    IF d = 0 THEN <<0, 0>>
    ELSE Reduce(n, d, Gcd(Abs(n), Abs(d)), IF d < 0 THEN -1 ELSE 1)

RI(n) == <<n, 1>>
RZero == RI(0)
ROne == RI(1)

RAdd(a, b) == Rat(a[1] * b[2] + b[1] * a[2], a[2] * b[2])
RSub(a, b) == Rat(a[1] * b[2] - b[1] * a[2], a[2] * b[2])
RMul(a, b) == Rat(a[1] * b[1], a[2] * b[2])
RDiv(a, b) == Rat(a[1] * b[2], a[2] * b[1])
RNeg(a) == <<-a[1], a[2]>>
RLt(a, b) == a[1] * b[2] < b[1] * a[2]
RLe(a, b) == a[1] * b[2] <= b[1] * a[2]
RGt(a, b) == RLt(b, a)
RGe(a, b) == RLe(b, a)
RMax(a, b) == IF RGt(b, a) THEN b ELSE a

(***************************************************************************)
(* calculate_payout(bet_amount, odds, won): signed profit of one bet.      *)
(* odds is an American-odds integer.  The divisions are by |odds| with     *)
(* odds < 0 and by 100: never by zero.                                     *)
(***************************************************************************)
\* Mutation of calculate_payout: a lost bet costs nothing.
payout_refund_on_loss(bet_amount, odds, won) ==
    IF ~won THEN RZero
    ELSE IF odds < 0
         THEN RMul(bet_amount, RDiv(RI(100), RI(Abs(odds))))
         ELSE RMul(bet_amount, RDiv(RI(odds), RI(100)))

\* Mutation of calculate_payout: the underdog formula on every odds.
payout_one_formula(bet_amount, odds, won) ==
    IF ~won THEN RNeg(bet_amount)
    ELSE RMul(bet_amount, RDiv(RI(Abs(odds)), RI(100)))

\* Mutation of calculate_payout: a won bet returns the stake with the profit.
payout_with_stake(bet_amount, odds, won) ==
    IF ~won THEN RNeg(bet_amount)
    ELSE IF odds < 0
         THEN RAdd(bet_amount, RMul(bet_amount, RDiv(RI(100), RI(Abs(odds)))))
         ELSE RAdd(bet_amount, RMul(bet_amount, RDiv(RI(odds), RI(100))))

calculate_payout(bet_amount, odds, won) ==
    IF ~won THEN RNeg(bet_amount)
    ELSE IF odds < 0
         THEN RMul(bet_amount, RDiv(RI(100), RI(Abs(odds))))
         ELSE RMul(bet_amount, RDiv(RI(odds), RI(100)))


(***************************************************************************)
(* Bounds and input domains.                                               *)
(***************************************************************************)
\* Longest games table of a run.
MaxGames == 3

\* Half, quarter, ...: the probabilities and configuration values used.
Quarter == Rat(1, 4)
Half == Rat(1, 2)
ThreeQuarters == Rat(3, 4)

\* One Game-Odds Record (one row of games_df).
Game(mp, kp, ho, ao, hw) ==
    [model_prob_home |-> mp, market_prob_home |-> kp,
     home_odds |-> ho, away_odds |-> ao, home_win |-> hw]

\* The rows a games table is built from:
\*   home edge 1/4 at even odds, won and lost;
\*   away edge 1/4 at even odds, won (home_win = 0) and lost;
\*   no edge on either side, at generous odds (Kelly fraction 1/4 > 0);
\*   the end-to-end scenario row (-150/+130, 0.70 against 0.58, home won);
\*   a row quoting odds of exactly 0;
\*   a certain home win (model probability 1) at +200 that is lost.
GameRows ==
    { Game(ThreeQuarters, Half, 100, -120, 1),
      Game(ThreeQuarters, Half, 100, -120, 0),
      Game(Quarter, Half, -150, 100, 0),
      Game(Quarter, Half, -150, 100, 1),
      Game(Half, Half, 200, 200, 1),
      Game(Rat(7, 10), Rat(29, 50), -150, 130, 1),
      Game(ThreeQuarters, Half, 0, 0, 1),
      Game(ROne, Half, 200, -250, 0) }

GameTables == UNION { [1..n -> GameRows] : n \in 0..MaxGames }

\* Defaults of the simulators' keyword parameters.
DefaultEdgeThreshold == Rat(1, 20)
DefaultBetSize == RI(100)
DefaultKellyFraction == Quarter
DefaultStartingBankroll == RI(10000)

EdgeThresholds == { RZero, DefaultEdgeThreshold, Quarter }
BetSizes == { RI(-100), RZero, DefaultBetSize }
KellyFractions == { DefaultKellyFraction, ROne, RI(2) }
StartingBankrolls == { RZero, RI(2), RI(16) }

(***************************************************************************)
(* State of one simulator run.                                             *)
(***************************************************************************)
VARIABLES
    simulator,          \* "threshold" | "kelly": the function that was called
    games,              \* games_df, the input table, in input order
    object_rows,        \* TRUE: the table has a non-numeric column, so iterrows
                        \* yields rows of Python objects (float division by zero
                        \* raises ZeroDivisionError); FALSE: all columns numeric,
                        \* rows are float64 (division by zero gives inf/nan).
                        \* For a direct call: the arguments are Python floats
                        \* (TRUE) or float64 scalars (FALSE)
    edge_threshold,     \* configuration of simulate_threshold_betting
    bet_size,
    kelly_fraction,     \* configuration of simulate_kelly_betting
    starting_bankroll,
    idx,                \* number of rows the loop has consumed (= next row's
                        \* position in the default RangeIndex)
    bankroll,           \* the running bankroll
    results,            \* the list of Bet Records appended so far
    pc,                 \* "loop" | "returned" | "raised" ("idle": no run)
    ret,                \* the returned (DataFrame(results), bankroll) pair
    call,               \* a direct call of a pure function: its name and
                        \* arguments
    answer,             \* what that call did: pending, returned a value, or
                        \* raised
    first,              \* how an earlier call of the simulator with the same
                        \* arguments ended (NoRun: there was none)
    client,             \* the data-source client class in use ("none": no
                        \* client)
    cache,              \* the client's JSONCache: cache path -> file content
    last_request,       \* the client's _last_request has been stamped
    reply               \* the last _request call: its arguments, how it
                        \* ended, and the HTTP requests it issued

vars == <<simulator, games, object_rows, edge_threshold, bet_size,
          kelly_fraction, starting_bankroll, idx, bankroll, results, pc, ret,
          call, answer, first, client, cache, last_request, reply>>

config == <<simulator, games, object_rows, edge_threshold, bet_size,
            kelly_fraction, starting_bankroll>>

NoReturn == [bets_df |-> <<>>, final_bankroll |-> RZero]

\* What a simulator run does not touch: the direct call and the record of
\* the earlier run.
calc == <<call, answer, first, client, cache, last_request, reply>>

\* No data-source client.
NoCache == <<>>
NoReply == [outcome |-> "none"]
NoClient ==
    /\ client = "none"
    /\ cache = NoCache
    /\ last_request = FALSE
    /\ reply = NoReply

NoRun == [pc |-> "none"]

\* A field that holds text (e.g. "n/a") where a number is expected.
NonNumeric == <<>>

\* row['model_prob_home'] - row['market_prob_home'] is defined.
numeric_row(game) == game.model_prob_home # NonNumeric

NoCall == [fn |-> "none"]

Pending == [status |-> "pending"]

(***************************************************************************)
(* The per-game decision, shared by both simulators.                       *)
(***************************************************************************)
edge_home(game) == RSub(game.model_prob_home, game.market_prob_home)

\* Mutation of edge_away: the home probabilities, not their complements.
edge_away_uncomplemented(game) ==
    RSub(game.model_prob_home, game.market_prob_home)

edge_away(game) ==
    RSub(RSub(ROne, game.model_prob_home), RSub(ROne, game.market_prob_home))

\* Fields of a Bet Record restated for the chosen side.
side_edge(game, bet_placed) ==
    IF bet_placed = "home" THEN edge_home(game) ELSE edge_away(game)

side_model_prob(game, bet_placed) ==
    IF bet_placed = "home" THEN game.model_prob_home
    ELSE RSub(ROne, game.model_prob_home)

side_market_prob(game, bet_placed) ==
    IF bet_placed = "home" THEN game.market_prob_home
    ELSE RSub(ROne, game.market_prob_home)

side_odds(game, bet_placed) ==
    IF bet_placed = "home" THEN game.home_odds ELSE game.away_odds

side_won(game, bet_placed) ==
    IF bet_placed = "home" THEN game.home_win = 1 ELSE game.home_win = 0

\* Mutation of outcome_of: `>=` for `>`.
outcome_of_nonneg(profit) == IF RGe(profit, RZero) THEN "win" ELSE "loss"

\* 'win' if profit > 0 else 'loss'
outcome_of(profit) == IF RGt(profit, RZero) THEN "win" ELSE "loss"

(***************************************************************************)
(* simulate_threshold_betting: one iteration of the loop.                  *)
(* The loop state is the pair (bankroll, results); helper operators take   *)
(* the values the Python code holds in local variables as parameters.      *)
(***************************************************************************)
\* Mutation of threshold_side: the away edge is checked first.
threshold_side_away_first(game, threshold) ==
    IF RGe(edge_away(game), threshold) THEN "away"
    ELSE IF RGe(edge_home(game), threshold) THEN "home"
    ELSE "none"

\* The side bet on: "home", "away", or "none" (bet_placed = None).
threshold_side(game, threshold) ==
    IF RGe(edge_home(game), threshold) THEN "home"
    ELSE IF RGe(edge_away(game), threshold) THEN "away"
    ELSE "none"

\* The Bet Record appended for a game that is bet on, given the bankroll
\* after `bankroll += profit`.
threshold_record(game, i, bet_placed, stake, profit, new_bankroll) ==
    [game_id |-> i,
     bet_on |-> bet_placed,
     edge |-> side_edge(game, bet_placed),
     model_prob |-> side_model_prob(game, bet_placed),
     market_prob |-> side_market_prob(game, bet_placed),
     odds |-> side_odds(game, bet_placed),
     bet_size |-> stake,
     outcome |-> outcome_of(profit),
     profit |-> profit,
     cumulative_profit |-> new_bankroll]

\* Mutation of threshold_append: the record is built before `bankroll +=
\* profit`, so cumulative_profit lags by one bet.
threshold_append_stale(b, rs, game, i, bet_placed, profit) ==
    [bankroll |-> RAdd(b, profit),
     results |-> Append(rs, threshold_record(game, i, bet_placed, bet_size,
                                             profit, b))]

\* if bet_placed: bankroll += profit; results.append({...})
threshold_append(b, rs, game, i, bet_placed, profit) ==
    [bankroll |-> RAdd(b, profit),
     results |-> Append(rs, threshold_record(game, i, bet_placed, bet_size,
                                             profit, RAdd(b, profit)))]

threshold_settle(b, rs, game, i, bet_placed) ==
    IF bet_placed = "none"
    THEN [bankroll |-> b, results |-> rs]
    ELSE threshold_append(b, rs, game, i, bet_placed,
             calculate_payout(bet_size, side_odds(game, bet_placed),
                              side_won(game, bet_placed)))

\* The loop body on (bankroll, results) for row i: the new bankroll and list.
threshold_body(b, rs, game, i) ==
    threshold_settle(b, rs, game, i, threshold_side(game, edge_threshold))

(***************************************************************************)
(* kelly_criterion(model_prob, odds): the Kelly fraction, floored at 0.     *)
(* The result is [raised, value].  With net odds b = 0 (odds = 0) the       *)
(* division (p*b - q)/b is a float division by zero: on Python floats       *)
(* (object_rows) it raises ZeroDivisionError; on float64 it yields -inf     *)
(* (q > 0) or nan (q = 0), and max(0.0, .) of either is 0.0.                *)
(***************************************************************************)
\* b = decimal_odds - 1
net_odds(odds) ==
    RSub(IF odds < 0
         THEN RAdd(ROne, RDiv(RI(100), RI(Abs(odds))))
         ELSE RAdd(ROne, RDiv(RI(odds), RI(100))),
         ROne)

\* Mutation of kelly_frac: the raw fraction, without the floor at 0.
kelly_frac_raw(p, b) ==
    IF b = RZero
    THEN [raised |-> object_rows, value |-> RZero]
    ELSE [raised |-> FALSE,
          value |-> RDiv(RSub(RMul(p, b), RSub(ROne, p)), b)]

\* Mutation of kelly_frac: the expected net gain p*b - q, not divided by b.
kelly_frac_undivided(p, b) ==
    IF b = RZero
    THEN [raised |-> object_rows, value |-> RZero]
    ELSE [raised |-> FALSE,
          value |-> RMax(RZero, RSub(RMul(p, b), RSub(ROne, p)))]

\* max(0.0, (p * b - q) / b) with q = 1 - p
kelly_frac(p, b) ==
    IF b = RZero
    THEN [raised |-> object_rows, value |-> RZero]
    ELSE [raised |-> FALSE,
          value |-> RMax(RZero, RDiv(RSub(RMul(p, b), RSub(ROne, p)), b))]

kelly_criterion(model_prob, odds) == kelly_frac(model_prob, net_odds(odds))

(***************************************************************************)
(* simulate_kelly_betting: one iteration of the loop.                      *)
(***************************************************************************)
\* Mutation of kelly_side: `>=` for `>`.
kelly_side_nonneg(game) ==
    IF RGe(edge_home(game), RZero) THEN "home"
    ELSE IF RGe(edge_away(game), RZero) THEN "away"
    ELSE "none"

\* The side whose edge is looked at: "home", "away", or "none".
kelly_side(game) ==
    IF RGt(edge_home(game), RZero) THEN "home"
    ELSE IF RGt(edge_away(game), RZero) THEN "away"
    ELSE "none"

\* Mutation of kelly_stake: sized from the starting bankroll.
kelly_stake_flat(b, kelly, fraction) ==
    RMul(RMul(starting_bankroll, kelly), fraction)

\* bet_size = bankroll * kelly * kelly_fraction
kelly_stake(b, kelly, fraction) == RMul(RMul(b, kelly), fraction)

\* Mutation of minimum_bet: any positive stake is accepted.
minimum_bet_none(stake) == RGt(stake, RZero)

\* if bet_size >= 1.0:  # Minimum $1 bet
minimum_bet(stake) == RGe(stake, ROne)

\* if bet_placed and bet_size > 0:
bet_is_placed(bet_placed, stake) == bet_placed # "none" /\ RGt(stake, RZero)

\* Mutation of roi_of: relative to the current bankroll.
roi_of_current(b, start) == RMul(RDiv(RSub(b, start), b), RI(100))

\* ((bankroll - starting_bankroll) / starting_bankroll) * 100
roi_of(b, start) == RMul(RDiv(RSub(b, start), start), RI(100))

kelly_record(game, i, bet_placed, stake, profit, new_bankroll) ==
    [game_id |-> i,
     bet_on |-> bet_placed,
     edge |-> side_edge(game, bet_placed),
     model_prob |-> side_model_prob(game, bet_placed),
     market_prob |-> side_market_prob(game, bet_placed),
     odds |-> side_odds(game, bet_placed),
     bet_size |-> stake,
     outcome |-> outcome_of(profit),
     profit |-> profit,
     bankroll |-> new_bankroll,
     roi |-> roi_of(new_bankroll, starting_bankroll)]

\* The locals after the sizing of one side: bet_placed is the side when the
\* stake reaches the minimum bet, None ("none") otherwise.
kelly_sized(side, stake) ==
    [raised |-> FALSE,
     bet_placed |-> IF minimum_bet(stake) THEN side ELSE "none",
     bet_size |-> stake]

\* The sizing of row `game` from the bankroll b, for the side with a
\* positive edge: the locals (bet_placed, bet_size), or raised.
kelly_bet(b, side, k) ==
    IF k.raised
    THEN [raised |-> TRUE, bet_placed |-> "none", bet_size |-> RZero]
    ELSE kelly_sized(side, kelly_stake(b, k.value, kelly_fraction))

kelly_sizing(b, game, side) ==
    IF side = "none"
    THEN [raised |-> FALSE, bet_placed |-> "none", bet_size |-> RZero]
    ELSE kelly_bet(b, side, kelly_criterion(side_model_prob(game, side),
                                            side_odds(game, side)))

\* Mutation of kelly_append: the record is inserted at the head of the list.
kelly_prepend(b, rs, game, i, bet_placed, stake, profit) ==
    [raised |-> FALSE,
     bankroll |-> RAdd(b, profit),
     results |-> <<kelly_record(game, i, bet_placed, stake, profit,
                                RAdd(b, profit))>> \o rs]

\* Mutation of kelly_append: the bankroll is clamped at 0.
kelly_append_clamped(b, rs, game, i, bet_placed, stake, profit) ==
    [raised |-> FALSE,
     bankroll |-> RMax(RZero, RAdd(b, profit)),
     results |-> Append(rs, kelly_record(game, i, bet_placed, stake, profit,
                                         RMax(RZero, RAdd(b, profit))))]

\* profit = calculate_payout(...); bankroll += profit; results.append({...})
kelly_append(b, rs, game, i, bet_placed, stake, profit) ==
    [raised |-> FALSE,
     bankroll |-> RAdd(b, profit),
     results |-> Append(rs, kelly_record(game, i, bet_placed, stake, profit,
                                         RAdd(b, profit)))]

kelly_settle(b, rs, game, i, sz) ==
    IF sz.raised
    THEN [raised |-> TRUE, bankroll |-> b, results |-> rs]
    ELSE IF bet_is_placed(sz.bet_placed, sz.bet_size)
    THEN kelly_append(b, rs, game, i, sz.bet_placed, sz.bet_size,
             calculate_payout(sz.bet_size, side_odds(game, sz.bet_placed),
                              side_won(game, sz.bet_placed)))
    ELSE [raised |-> FALSE, bankroll |-> b, results |-> rs]

\* The loop body on (bankroll, results) for row i.
kelly_body(b, rs, game, i) ==
    kelly_settle(b, rs, game, i, kelly_sizing(b, game, kelly_side(game)))

(***************************************************************************)
(* The state machine.                                                      *)
(***************************************************************************)
\* Entry to the loop: results = [], bankroll = 0.0 (threshold) or
\* starting_bankroll (Kelly).  The configuration a run does not read keeps
\* its default; the threshold simulator divides by no input, so the row
\* representation makes no difference to it and is fixed.
Entry(tables) ==
    /\ simulator \in {"threshold", "kelly"}
    /\ games \in tables
    /\ IF simulator = "threshold"
       THEN /\ object_rows = FALSE
            /\ edge_threshold \in EdgeThresholds
            /\ bet_size \in BetSizes
            /\ kelly_fraction = DefaultKellyFraction
            /\ starting_bankroll = DefaultStartingBankroll
            /\ bankroll = RZero
       ELSE /\ object_rows \in BOOLEAN
            /\ edge_threshold = DefaultEdgeThreshold
            /\ bet_size = DefaultBetSize
            /\ kelly_fraction \in KellyFractions
            /\ starting_bankroll \in StartingBankrolls
            /\ bankroll = starting_bankroll
    /\ idx = 0
    /\ results = <<>>
    /\ pc = "loop"
    /\ ret = NoReturn
    /\ call = NoCall
    /\ answer = Pending
    /\ first = NoRun
    /\ NoClient

Init == Entry(GameTables)

\* The loop state after one iteration that produced `out`.
Iterated(out) ==
    /\ bankroll' = out.bankroll
    /\ results' = out.results
    /\ idx' = idx + 1
    /\ UNCHANGED <<config, pc, ret, calc>>

\* An exception propagates out of the loop body: the call ends.
Raised ==
    /\ pc' = "raised"
    /\ UNCHANGED <<config, idx, bankroll, results, ret, calc>>

\* One iteration of `for idx, game in games_df.iterrows()` in
\* simulate_threshold_betting.
ThresholdGame ==
    /\ simulator = "threshold"
    /\ pc = "loop"
    /\ idx < Len(games)
    /\ IF numeric_row(games[idx + 1])
       THEN Iterated(threshold_body(bankroll, results, games[idx + 1], idx))
       ELSE Raised

KellyIterated(out) == IF out.raised THEN Raised ELSE Iterated(out)

\* One iteration of the loop of simulate_kelly_betting.
KellyGame ==
    /\ simulator = "kelly"
    /\ pc = "loop"
    /\ idx < Len(games)
    /\ IF numeric_row(games[idx + 1])
       THEN KellyIterated(kelly_body(bankroll, results, games[idx + 1], idx))
       ELSE Raised

\* return pd.DataFrame(results), bankroll
Return ==
    /\ pc = "loop"
    /\ idx = Len(games)
    /\ pc' = "returned"
    /\ ret' = [bets_df |-> results, final_bankroll |-> bankroll]
    /\ UNCHANGED <<config, idx, bankroll, results, calc>>

Next == ThresholdGame \/ KellyGame \/ Return

Spec == Init /\ [][Next]_vars

\* No number of the state is the result of a division by zero.
NoDivisionByZero ==
    /\ bankroll[2] > 0
    /\ \A k \in 1..Len(results) :
          /\ results[k].profit[2] > 0
          /\ results[k].bet_size[2] > 0
          /\ simulator = "kelly" => results[k].roi[2] > 0

(***************************************************************************)
(* The whole call of simulate_kelly_betting on a table, as a function of   *)
(* the table: the loop state after every prefix.                           *)
(***************************************************************************)
kelly_next(st, game, i) ==
    IF st.raised THEN st
    ELSE IF ~numeric_row(game)
    THEN [raised |-> TRUE, bankroll |-> st.bankroll, results |-> st.results]
    ELSE kelly_body(st.bankroll, st.results, game, i)

kelly_run(tbl) ==
    LET loop[k \in 0..Len(tbl)] ==
            IF k = 0
            THEN [raised |-> FALSE, bankroll |-> starting_bankroll,
                  results |-> <<>>]
            ELSE kelly_next(loop[k - 1], tbl[k], k - 1)
    IN  loop[Len(tbl)]

\* The state machine and the function agree on the returned pair.
RunIsFunction ==
    (simulator = "kelly" /\ pc = "returned") =>
        /\ kelly_run(games).results = ret.bets_df
        /\ kelly_run(games).bankroll = ret.final_bankroll

(***************************************************************************)
(* Repeated runs.  A behaviour of SpecRuns is a call of a simulator and a  *)
(* second call with the same arguments; the tables may hold a row whose    *)
(* model_prob_home is not a number.                                        *)
(***************************************************************************)
\* Longest games table of a repeated run.
MaxRunGames == 2

RunRows == GameRows \cup {Game(NonNumeric, Half, -150, 130, 1)}

RunTables == UNION { [1..n -> RunRows] : n \in 0..MaxRunGames }

InitRuns == Entry(RunTables)

\* Mutation of initial_bankroll: the bankroll the earlier run ended with.
leftover_bankroll == bankroll

\* bankroll = 0.0 / bankroll = starting_bankroll at the head of a call.
initial_bankroll ==
    IF simulator = "threshold" THEN RZero ELSE starting_bankroll

\* The call has ended; the simulator is called again with the same
\* arguments.  Its locals are new: results = [], bankroll as at entry.
Rerun ==
    /\ pc \in {"returned", "raised"}
    /\ first = NoRun
    /\ first' = [pc |-> pc, ret |-> ret, idx |-> idx]
    /\ idx' = 0
    /\ results' = <<>>
    /\ bankroll' = initial_bankroll
    /\ pc' = "loop"
    /\ ret' = NoReturn
    /\ UNCHANGED <<config, call, answer, client, cache, last_request, reply>>

NextRuns == Next \/ Rerun

SpecRuns == InitRuns /\ [][NextRuns]_vars

(***************************************************************************)
(* Odds Converter.                                                         *)
(***************************************************************************)
\* american_to_probability(odds): the implied probability.  The divisors
\* are |odds| + 100 with odds < 0 and odds + 100 with odds >= 0: never zero,
\* so the function returns for every odds, 0 included.
\* Mutation of american_to_probability: the two branches exchanged.
american_branches_swapped(odds) ==
    IF odds < 0
    THEN RDiv(RI(100), RAdd(RI(Abs(odds)), RI(100)))
    ELSE RDiv(RI(odds), RAdd(RI(odds), RI(100)))

american_to_probability(odds) ==
    IF odds < 0
    THEN RDiv(RI(Abs(odds)), RAdd(RI(Abs(odds)), RI(100)))
    ELSE RDiv(RI(100), RAdd(RI(odds), RI(100)))

\* The value of a float64 division by zero (nan or +-inf): Rat(n, 0).
NotANumber == <<0, 0>>

\* Mutation of vig_share: the raw probability, not divided by the total.
vig_share_unscaled(prob, total) == prob

\* prob / total, as a float64 division: NotANumber when total = 0.
vig_share(prob, total) == RDiv(prob, total)

\* remove_vig_proportional on the sum `total`: with total = 0 the division
\* raises ZeroDivisionError on Python floats and gives nan on float64.
vig_removed(prob_home, prob_away, total) ==
    IF total = RZero /\ object_rows
    THEN [status |-> "raised"]
    ELSE [status |-> "returned",
          value |-> <<vig_share(prob_home, total), vig_share(prob_away, total)>>]

remove_vig_proportional(prob_home, prob_away) ==
    vig_removed(prob_home, prob_away, RAdd(prob_home, prob_away))

(***************************************************************************)
(* process_betting_odds(odds_df): the bulk Odds Converter.  A table is the *)
(* sequence of its rows.  The result is [status, value], value holding the *)
(* returned table (result) and the caller's table as the call leaves it    *)
(* (odds_df).                                                              *)
(***************************************************************************)
\* The derived columns of one row, vig being remove_vig_proportional's
\* answer for the row.
odds_row_derived(row, home_prob_raw, away_prob_raw, vig) ==
    [game_id |-> row.game_id,
     home_odds |-> row.home_odds,
     away_odds |-> row.away_odds,
     home_prob_raw |-> home_prob_raw,
     away_prob_raw |-> away_prob_raw,
     total_prob |-> RAdd(home_prob_raw, away_prob_raw),
     vig_percent |-> RMul(RSub(RAdd(home_prob_raw, away_prob_raw), ROne),
                          RI(100)),
     market_prob_home |-> IF vig.status = "raised" THEN NotANumber
                          ELSE vig.value[1],
     market_prob_away |-> IF vig.status = "raised" THEN NotANumber
                          ELSE vig.value[2]]

odds_row_raw(row, home_prob_raw, away_prob_raw) ==
    odds_row_derived(row, home_prob_raw, away_prob_raw,
                     remove_vig_proportional(home_prob_raw, away_prob_raw))

odds_row(row) ==
    odds_row_raw(row, american_to_probability(row.home_odds),
                 american_to_probability(row.away_odds))

\* remove_vig_proportional raises on some row (the apply then raises).
vig_raises(odds_df) ==
    \E i \in 1..Len(odds_df) :
        remove_vig_proportional(
            american_to_probability(odds_df[i].home_odds),
            american_to_probability(odds_df[i].away_odds)).status = "raised"

\* Mutation of process_betting_odds: no copy, the columns are added to the
\* caller's table.
process_in_place(odds_df) ==
    IF vig_raises(odds_df)
    THEN [status |-> "raised"]
    ELSE [status |-> "returned",
          value |-> [result |-> [i \in 1..Len(odds_df) |-> odds_row(odds_df[i])],
                     odds_df |-> [i \in 1..Len(odds_df) |-> odds_row(odds_df[i])]]]

process_betting_odds(odds_df) ==
    IF vig_raises(odds_df)
    THEN [status |-> "raised"]
    ELSE [status |-> "returned",
          value |-> [result |-> [i \in 1..Len(odds_df) |-> odds_row(odds_df[i])],
                     odds_df |-> odds_df]]

(***************************************************************************)
(* Performance Evaluator: calculate_roi_metrics(bets_df, bet_size=None).   *)
(* bets_df is the sequence of its rows, has_cumulative tells whether it    *)
(* has a cumulative_profit column.                                         *)
(***************************************************************************)
\* bet_size=None
None == <<>>

\* Series.sum() of the first i entries.
RECURSIVE series_sum(_, _)
series_sum(s, i) == IF i = 0 THEN RZero ELSE RAdd(series_sum(s, i - 1), s[i])

\* Series.cumsum()
cumsum(s) == [i \in 1..Len(s) |-> series_sum(s, i)]

column(bets_df, name) == [i \in 1..Len(bets_df) |-> bets_df[i][name]]

total_wagered_of(bets_df, fixed_size) ==
    IF fixed_size # None
    THEN RMul(RI(Len(bets_df)), fixed_size)
    ELSE series_sum(column(bets_df, "bet_size"), Len(bets_df))

\* Mutation of roi_percent_of: the ratio, not the percentage.
roi_fraction_of(total_profit, total_wagered) ==
    IF RGt(total_wagered, RZero)
    THEN RDiv(total_profit, total_wagered)
    ELSE RZero

roi_percent_of(total_profit, total_wagered) ==
    IF RGt(total_wagered, RZero)
    THEN RMul(RDiv(total_profit, total_wagered), RI(100))
    ELSE RZero

\* Series.mean()
series_mean(s) == RDiv(series_sum(s, Len(s)), RI(Len(s)))

\* (bets_df['outcome'] == 'win').mean()
win_rate_of(bets_df) ==
    Rat(Cardinality({i \in 1..Len(bets_df) : bets_df[i].outcome = "win"}),
        Len(bets_df))

\* Series.std() squared: the sample variance (ddof = 1) around `mean`;
\* NotANumber for a single entry.
squared_deviations(s, mean) ==
    [i \in 1..Len(s) |-> RMul(RSub(s[i], mean), RSub(s[i], mean))]

series_var(s, mean) ==
    RDiv(series_sum(squared_deviations(s, mean), Len(s)), RI(Len(s) - 1))

\* A float holds x exactly when x is a (small) dyadic rational.
MaxExponent == 10
is_dyadic(x) == \E k \in 0..MaxExponent : x[2] = 2^k

\* The columns on which Series.std() can leave a rounding residue: three or
\* more equal entries that no float holds exactly.  Their float sum divided
\* by the count need not give the entry back (0.1 three times has mean
\* 0.10000000000000002), and then the deviations are one ulp, not 0.
\* Two equal entries always average exactly.
residue_prone(s) ==
    /\ Len(s) >= 3
    /\ \A i \in 1..Len(s) : s[i] = s[1]
    /\ ~is_dyadic(s[1])

\* A finite float quotient by a rounding residue (order 1e16), of the sign
\* of the mean: kept as +-1/0.
Huge(mean) == <<IF RLt(mean, RZero) THEN -1 ELSE 1, 0>>

\* (mean / std) * sqrt(n) when std > 0, else 0.0.  The value is kept as
\* its signed square sign(mean) * mean^2 * n / var, which is rational.
\* float_exact: the float mean of the column is its exact mean.
sharpe_of(mean, var, n, float_exact, returns) ==
    IF residue_prone(returns) /\ ~float_exact
    THEN Huge(mean)
    ELSE IF var # NotANumber /\ RGt(var, RZero)
    THEN RMul(IF RLt(mean, RZero) THEN RI(-1) ELSE ROne,
              RDiv(RMul(RMul(mean, mean), RI(n)), var))
    ELSE RZero

\* Mutation of cumulative: the running sum of profit whatever the columns.
cumulative_recomputed(bets_df, has_cumulative) ==
    cumsum(column(bets_df, "profit"))

cumulative(bets_df, has_cumulative) ==
    IF has_cumulative
    THEN column(bets_df, "cumulative_profit")
    ELSE cumsum(column(bets_df, "profit"))

\* np.maximum.accumulate(c)[i]
RECURSIVE maximum_accumulate(_, _)
maximum_accumulate(c, i) ==
    IF i = 1 THEN c[1] ELSE RMax(maximum_accumulate(c, i - 1), c[i])

drawdown(c) == [i \in 1..Len(c) |-> RSub(maximum_accumulate(c, i), c[i])]

\* ndarray.max() of the first i entries (i >= 1).
RECURSIVE array_max(_, _)
array_max(a, i) == IF i = 1 THEN a[1] ELSE RMax(array_max(a, i - 1), a[i])

max_drawdown_of(c) == array_max(drawdown(c), Len(c))

\* Mutation of EmptyMetrics: the mean of an empty profit column.
EmptyMetricsMeanOfNothing ==
    [n_bets |-> 0, total_wagered |-> RZero, total_profit |-> RZero,
     roi_percent |-> RZero, win_rate |-> RZero,
     avg_profit_per_bet |-> NotANumber,
     sharpe_ratio |-> RZero, max_drawdown |-> RZero]

EmptyMetrics ==
    [n_bets |-> 0, total_wagered |-> RZero, total_profit |-> RZero,
     roi_percent |-> RZero, win_rate |-> RZero, avg_profit_per_bet |-> RZero,
     sharpe_ratio |-> RZero, max_drawdown |-> RZero]

metrics_of(bets_df, total_wagered, returns, mean, c, float_exact) ==
    [n_bets |-> Len(bets_df),
     total_wagered |-> total_wagered,
     total_profit |-> series_sum(returns, Len(returns)),
     roi_percent |-> roi_percent_of(series_sum(returns, Len(returns)),
                                    total_wagered),
     win_rate |-> win_rate_of(bets_df),
     avg_profit_per_bet |-> mean,
     sharpe_ratio |-> sharpe_of(mean, series_var(returns, mean), Len(returns),
                                float_exact, returns),
     max_drawdown |-> max_drawdown_of(c)]

calculate_roi_metrics(bets_df, has_cumulative, fixed_size, float_exact) ==
    IF Len(bets_df) = 0
    THEN EmptyMetrics
    ELSE metrics_of(bets_df,
                    total_wagered_of(bets_df, fixed_size),
                    column(bets_df, "profit"),
                    series_mean(column(bets_df, "profit")),
                    cumulative(bets_df, has_cumulative),
                    float_exact)

(***************************************************************************)
(* Direct calls of the pure functions.                                     *)
(***************************************************************************)
\* American odds -50 * MaxOddsUnits .. 50 * MaxOddsUnits in steps of 50
\* (0 included), and the +130 of the documented examples.
MaxOddsUnits == 4
OddsValues == { 50 * k : k \in -MaxOddsUnits..MaxOddsUnits } \cup {130}

\* Probabilities 0, 1/ProbSteps, ..., 1.
ProbSteps == 4
ProbValues == { Rat(k, ProbSteps) : k \in 0..ProbSteps }

\* Stakes -1 .. MaxStake, and the default 100.
MaxStake == 3
StakeValues == { RI(k) : k \in -1..MaxStake } \cup {DefaultBetSize}

PayoutCalls ==
    { [fn |-> "calculate_payout", bet_amount |-> s, odds |-> o, won |-> w] :
        s \in StakeValues, o \in OddsValues, w \in BOOLEAN }

KellyCalls ==
    { [fn |-> "kelly_criterion", model_prob |-> p, odds |-> o] :
        p \in ProbValues, o \in OddsValues }

AmericanCalls ==
    { [fn |-> "american_to_probability", odds |-> o] : o \in OddsValues }

VigCalls ==
    { [fn |-> "remove_vig_proportional", prob_home |-> h, prob_away |-> a] :
        h \in ProbValues, a \in ProbValues }

\* Longest ledger handed to calculate_roi_metrics.
MaxBets == 4

Bet(profit, cum, stake, outcome) ==
    [profit |-> RI(profit), cumulative_profit |-> RI(cum),
     bet_size |-> RI(stake), outcome |-> outcome]

\* A won bet of 100 at -110: profit 100 * (100/110), which no float holds
\* exactly.
WonAtMinus110 ==
    [profit |-> Rat(1000, 11), cumulative_profit |-> Rat(1000, 11),
     bet_size |-> RI(100), outcome |-> "win"]

\* Ledger rows: in the order written the first four have cumulative
\* profits 50, 100, 40, 80; the last is a bet of size 0.
LedgerRows ==
    { Bet(50, 50, 100, "win"),
      Bet(50, 100, 100, "win"),
      Bet(-60, 40, 60, "loss"),
      Bet(40, 80, 100, "win"),
      Bet(0, 0, 0, "loss") }

\* Every ledger of these rows, and the ledgers of equal wins at -110.
Ledgers ==
    UNION { [1..n -> LedgerRows] : n \in 0..MaxBets }
        \cup { [i \in 1..n |-> WonAtMinus110] : n \in 1..MaxBets }

\* bet_size arguments: absent, the default, zero and a negative size.
FixedSizes == {None, DefaultBetSize, RZero, RI(-100)}

\* Whether the float mean of the profit column is exact: either way on a
\* residue-prone column, exact elsewhere.
FloatExact(l) ==
    IF l # <<>> /\ residue_prone(column(l, "profit"))
    THEN BOOLEAN ELSE {TRUE}

MetricsCalls ==
    { c \in { [fn |-> "calculate_roi_metrics", bets_df |-> l,
               has_cumulative |-> h, bet_size |-> z, float_exact |-> e] :
                 l \in Ledgers, h \in BOOLEAN, z \in FixedSizes,
                 e \in BOOLEAN } :
        c.float_exact \in FloatExact(c.bets_df) }

\* Longest odds table handed to process_betting_odds.
MaxOddsRows == 3

Quote(game_id, home_odds, away_odds) ==
    [game_id |-> game_id, home_odds |-> home_odds, away_odds |-> away_odds]

\* Quotes: favourite at home, favourite away, a pick'em with vig, a quote
\* without vig, a quote of exactly 0 on both sides.
OddsRows ==
    { Quote("BOS", -150, 130),
      Quote("NYR", 200, -250),
      Quote("TOR", -110, -110),
      Quote("MTL", 100, -100),
      Quote("SEA", 0, 0) }

OddsTables == UNION { [1..n -> OddsRows] : n \in 0..MaxOddsRows }

ProcessCalls ==
    { [fn |-> "process_betting_odds", odds_df |-> t] : t \in OddsTables }

Calls ==
    PayoutCalls \cup KellyCalls \cup AmericanCalls \cup VigCalls
        \cup MetricsCalls \cup ProcessCalls

\* The functions in which a float division by zero can happen.
FloatSensitive == {"kelly_criterion", "remove_vig_proportional"}

\* No simulator runs; one call is about to be made.
InitCalc ==
    /\ call \in Calls
    /\ simulator = "none"
    /\ games = <<>>
    /\ object_rows \in (IF call.fn \in FloatSensitive THEN BOOLEAN ELSE {FALSE})
    /\ edge_threshold = DefaultEdgeThreshold
    /\ bet_size = DefaultBetSize
    /\ kelly_fraction = DefaultKellyFraction
    /\ starting_bankroll = DefaultStartingBankroll
    /\ idx = 0
    /\ bankroll = RZero
    /\ results = <<>>
    /\ pc = "idle"
    /\ ret = NoReturn
    /\ answer = Pending
    /\ first = NoRun
    /\ NoClient

\* The call completes with `out`.
Answered(out) ==
    /\ answer' = out
    /\ UNCHANGED <<config, idx, bankroll, results, pc, ret, call, first,
                   client, cache, last_request, reply>>

Returned(v) == [status |-> "returned", value |-> v]

\* A [raised, value] result as an answer.
AnswerOf(k) == IF k.raised THEN [status |-> "raised"] ELSE Returned(k.value)

PayoutCall ==
    /\ call.fn = "calculate_payout"
    /\ answer = Pending
    /\ Answered(Returned(calculate_payout(call.bet_amount, call.odds, call.won)))

KellyCall ==
    /\ call.fn = "kelly_criterion"
    /\ answer = Pending
    /\ Answered(AnswerOf(kelly_criterion(call.model_prob, call.odds)))

AmericanCall ==
    /\ call.fn = "american_to_probability"
    /\ answer = Pending
    /\ Answered(Returned(american_to_probability(call.odds)))

VigCall ==
    /\ call.fn = "remove_vig_proportional"
    /\ answer = Pending
    /\ Answered(remove_vig_proportional(call.prob_home, call.prob_away))

MetricsCall ==
    /\ call.fn = "calculate_roi_metrics"
    /\ answer = Pending
    /\ Answered(Returned(calculate_roi_metrics(call.bets_df,
                                               call.has_cumulative,
                                               call.bet_size,
                                               call.float_exact)))

ProcessCall ==
    /\ call.fn = "process_betting_odds"
    /\ answer = Pending
    /\ Answered(process_betting_odds(call.odds_df))

NextCalc ==
    \/ PayoutCall
    \/ KellyCall
    \/ AmericanCall
    \/ VigCall
    \/ MetricsCall
    \/ ProcessCall

SpecCalc == InitCalc /\ [][NextCalc]_vars

(***************************************************************************)
(* Data-source clients (GamecenterClient, StatsRestClient,                 *)
(* LegacyStatsClient) and their JSONCache.  The three _request methods are *)
(* the same code.  A behaviour of SpecCache is the life of one client: a   *)
(* sequence of _request calls against a cache directory found in any       *)
(* state.  The directories JSONCache._resolve creates are not modelled.    *)
(***************************************************************************)
Clients == {"GamecenterClient", "StatsRestClient", "LegacyStatsClient"}

\* cache_path arguments; NoPath is cache_path=None.
Paths == {"2023/a", "2023/b"}
NoPath == "None"

\* JSON documents a server sends; "null" is the JSON null.
Payloads == {"p1", "p2"}
Bodies == Payloads \cup {"null"}

\* Content of a cache file: none, a JSON document, or text that is not
\* JSON (e.g. a write that was cut short).
Contents == {"absent", "corrupt"} \cup Bodies

\* What session.get(...) meets: a 2xx response with a JSON body, or a
\* status for which raise_for_status raises.
Responses ==
    { [status |-> "ok", body |-> b] : b \in Bodies }
        \cup { [status |-> "http_error", body |-> "null"] }

\* JSONCache.read: None (here "null") without a file, else the parsed text;
\* json.loads raises on text that is not JSON.
cache_read(content) ==
    IF content = "corrupt" THEN [raised |-> TRUE, value |-> "null"]
    ELSE IF content = "absent" THEN [raised |-> FALSE, value |-> "null"]
    ELSE [raised |-> FALSE, value |-> content]

\* JSONCache.write
cache_write(files, cache_path, payload) ==
    [files EXCEPT ![cache_path] = payload]

\* Mutation of fetch: the payload is stored only by a use_cache=True call.
fetch_stores_if_cached(files, cache_path, use_cache, response) ==
    IF response.status # "ok"
    THEN [outcome |-> "raised", value |-> "null", requests |-> 1,
          cache |-> files]
    ELSE [outcome |-> "returned", value |-> response.body, requests |-> 1,
          cache |-> IF cache_path # NoPath /\ use_cache
                    THEN cache_write(files, cache_path, response.body)
                    ELSE files]

\* _rate_limit(); session.get; raise_for_status; response.json();
\* cache.write when a cache_path was given.
fetch(files, cache_path, use_cache, response) ==
    IF response.status # "ok"
    THEN [outcome |-> "raised", value |-> "null", requests |-> 1,
          cache |-> files]
    ELSE [outcome |-> "returned", value |-> response.body, requests |-> 1,
          cache |-> IF cache_path # NoPath
                    THEN cache_write(files, cache_path, response.body)
                    ELSE files]

\* The cache lookup of _request, `cached` being cache.read's result.
lookup(files, cache_path, use_cache, response, cached) ==
    IF cached.raised
    THEN [outcome |-> "raised", value |-> "null", requests |-> 0,
          cache |-> files]
    ELSE IF cached.value # "null"
    THEN [outcome |-> "returned", value |-> cached.value, requests |-> 0,
          cache |-> files]
    ELSE fetch(files, cache_path, use_cache, response)

request(files, cache_path, use_cache, response) ==
    IF use_cache /\ cache_path # NoPath
    THEN lookup(files, cache_path, use_cache, response,
                cache_read(files[cache_path]))
    ELSE fetch(files, cache_path, use_cache, response)

InitCache ==
    /\ simulator = "none"
    /\ games = <<>>
    /\ object_rows = FALSE
    /\ edge_threshold = DefaultEdgeThreshold
    /\ bet_size = DefaultBetSize
    /\ kelly_fraction = DefaultKellyFraction
    /\ starting_bankroll = DefaultStartingBankroll
    /\ idx = 0
    /\ bankroll = RZero
    /\ results = <<>>
    /\ pc = "idle"
    /\ ret = NoReturn
    /\ call = NoCall
    /\ answer = Pending
    /\ first = NoRun
    /\ client \in Clients
    /\ cache \in [Paths -> Contents]
    /\ last_request = FALSE
    /\ reply = NoReply

\* A _request call with these arguments ended as `out`.
Requested(cache_path, use_cache, out) ==
    /\ cache' = out.cache
    /\ last_request' = (last_request \/ out.requests > 0)
    /\ reply' = [cache_path |-> cache_path, use_cache |-> use_cache,
                 outcome |-> out.outcome, value |-> out.value,
                 requests |-> out.requests, before |-> cache]
    /\ UNCHANGED <<config, idx, bankroll, results, pc, ret, call, answer,
                   first, client>>

AnyRequest ==
    \E cache_path \in Paths \cup {NoPath}, use_cache \in BOOLEAN,
       response \in Responses :
        Requested(cache_path, use_cache,
                  request(cache, cache_path, use_cache, response))

GamecenterRequest == client = "GamecenterClient" /\ AnyRequest

StatsRestRequest == client = "StatsRestClient" /\ AnyRequest

LegacyRequest == client = "LegacyStatsClient" /\ AnyRequest

NextCache == GamecenterRequest \/ StatsRestRequest \/ LegacyRequest

SpecCache == InitCache /\ [][NextCache]_vars

(***************************************************************************)
(* Vocabulary of the properties.                                           *)
(***************************************************************************)
\* Positions in the ledger of the Bet Records of the k-th game (1-based).
RecordsOf(k) == { j \in 1..Len(results) : results[j].game_id = k - 1 }

\* The k-th game has been consumed by the loop.
Processed == 1..idx

RECURSIVE SumProfits(_, _)
SumProfits(rs, j) ==
    IF j = 0 THEN RZero ELSE RAdd(SumProfits(rs, j - 1), rs[j].profit)

\* The bankroll a Kelly run held when it sized the bet of ledger position j:
\* the post-bet bankroll of the previous record, or the starting bankroll.
BankrollBefore(j) ==
    IF j = 1 THEN starting_bankroll ELSE results[j - 1].bankroll

(***************************************************************************)
(* C1.  simulate_threshold_betting: for every game consumed, if            *)
(* edge_home >= edge_threshold the game's one Bet Record is on home (also  *)
(* when edge_away clears the threshold as well); otherwise if              *)
(* edge_away >= edge_threshold it is on away; otherwise the game has no    *)
(* Bet Record.  An edge equal to the threshold is a bet.                   *)
(***************************************************************************)
C1_BetOn(k, side) ==
    /\ RecordsOf(k) # {}
    /\ \A j \in RecordsOf(k) : results[j].bet_on = side

C1_ThresholdDecision ==
    simulator = "threshold" =>
        \A k \in Processed :
            IF RGe(edge_home(games[k]), edge_threshold)
            THEN C1_BetOn(k, "home")
            ELSE IF RGe(edge_away(games[k]), edge_threshold)
            THEN C1_BetOn(k, "away")
            ELSE RecordsOf(k) = {}

\* A consumed game whose two edges both clear the threshold, the home edge
\* being exactly the threshold, bet on home; and another game bet on away.
C1_Witness ==
    /\ simulator = "threshold"
    /\ \E k \in Processed :
          /\ edge_home(games[k]) = edge_threshold
          /\ RGe(edge_away(games[k]), edge_threshold)
          /\ C1_BetOn(k, "home")
    /\ \E k \in Processed : C1_BetOn(k, "away")

(***************************************************************************)
(* C2.  simulate_kelly_betting: every Bet Record is on a side whose edge   *)
(* is strictly positive, home when edge_home > 0 and away only when        *)
(* edge_home <= 0; a consumed game with edge_home = 0 has no Bet Record.   *)
(***************************************************************************)
C2_StrictlyPositiveEdge ==
    simulator = "kelly" =>
        /\ \A k \in Processed :
              /\ edge_home(games[k]) = RZero => RecordsOf(k) = {}
              /\ \A j \in RecordsOf(k) :
                    IF RGt(edge_home(games[k]), RZero)
                    THEN results[j].bet_on = "home"
                    ELSE /\ results[j].bet_on = "away"
                         /\ RGt(edge_away(games[k]), RZero)
        /\ \A j \in 1..Len(results) : RGt(results[j].edge, RZero)

\* A run that consumed a game with no edge, at odds and a bankroll for which
\* a bet on it would have been sized at 1.0 or more, and recorded nothing.
C2_Witness ==
    /\ simulator = "kelly"
    /\ results = <<>>
    /\ \E k \in Processed :
          /\ edge_home(games[k]) = RZero
          /\ edge_away(games[k]) = RZero
          /\ RGe(kelly_stake(bankroll,
                     kelly_criterion(games[k].model_prob_home,
                                     games[k].home_odds).value,
                     kelly_fraction), ROne)

(***************************************************************************)
(* C3.  simulate_kelly_betting: an iteration on a game with a positive     *)
(* edge whose stake bankroll * kelly * kelly_fraction is below 1.0 appends *)
(* no Bet Record and leaves the bankroll as it was, so the next game is    *)
(* sized from the same bankroll.                                           *)
(***************************************************************************)
\* The stake the next iteration computes for the side with a positive edge.
C3_NextStake ==
    kelly_stake(bankroll,
        kelly_criterion(side_model_prob(games[idx + 1], kelly_side(games[idx + 1])),
                        side_odds(games[idx + 1], kelly_side(games[idx + 1]))).value,
        kelly_fraction)

C3_Suppressed ==
    /\ simulator = "kelly"
    /\ pc = "loop"
    /\ idx < Len(games)
    /\ (RGt(edge_home(games[idx + 1]), RZero)
        \/ RGt(edge_away(games[idx + 1]), RZero))
    /\ ~kelly_criterion(side_model_prob(games[idx + 1], kelly_side(games[idx + 1])),
                        side_odds(games[idx + 1], kelly_side(games[idx + 1]))).raised
    /\ RLt(C3_NextStake, ROne)

C3_MinimumBetSuppression ==
    [][C3_Suppressed => (results' = results /\ bankroll' = bankroll)]_vars

\* A run that skipped a positive-edge game for a stake in (0, 1) and then
\* placed a bet on a later game, sized from the starting bankroll.
C3_Witness ==
    /\ simulator = "kelly"
    /\ Len(results) = 1
    /\ results[1].game_id > 0
    /\ results[1].bet_size =
           kelly_stake(starting_bankroll,
               kelly_criterion(results[1].model_prob, results[1].odds).value,
               kelly_fraction)
    /\ \E k \in 1..results[1].game_id :
          /\ kelly_side(games[k]) # "none"
          /\ side_odds(games[k], kelly_side(games[k])) # 0
          /\ RGt(kelly_criterion(side_model_prob(games[k], kelly_side(games[k])),
                     side_odds(games[k], kelly_side(games[k]))).value, RZero)
          /\ RGt(starting_bankroll, RZero)

(***************************************************************************)
(* C4.  simulate_kelly_betting: the stake of every placed bet is           *)
(* (the bankroll as it stands after all earlier games) *                   *)
(* kelly_criterion(probability, odds of the chosen side) * kelly_fraction. *)
(* The earlier games act on a stake only through that bankroll.            *)
(***************************************************************************)
C4_StakeFromRunningBankroll ==
    simulator = "kelly" =>
        \A j \in 1..Len(results) :
            results[j].bet_size =
                RMul(RMul(BankrollBefore(j),
                          kelly_criterion(results[j].model_prob,
                                          results[j].odds).value),
                     kelly_fraction)

\* A ledger whose second bet was sized from a bankroll that the first bet
\* had changed.
C4_Witness ==
    /\ simulator = "kelly"
    /\ Len(results) >= 2
    /\ results[1].profit # RZero
    /\ BankrollBefore(2) # starting_bankroll
    /\ results[2].bet_size # RMul(RMul(starting_bankroll,
                                 kelly_criterion(results[2].model_prob,
                                                 results[2].odds).value),
                                 kelly_fraction)

\* The table with rows a and b exchanged.
C4_Swap(tbl, a, b) ==
    [k \in 1..Len(tbl) |-> IF k = a THEN tbl[b] ELSE IF k = b THEN tbl[a] ELSE tbl[k]]

\* The stake of the bet on row c (0-based game_id c - 1) in a ledger, or
\* <<>> when the ledger has no bet on it.
C4_StakeOn(rs, c) ==
    IF \E j \in 1..Len(rs) : rs[j].game_id = c - 1
    THEN rs[CHOOSE j \in 1..Len(rs) : rs[j].game_id = c - 1].bet_size
    ELSE <<>>

\* C4 as stated: exchanging two different earlier games whose realized
\* profits differ changes the stake of a later bet.
C4_SwapChangesLaterStake ==
    (simulator = "kelly" /\ pc = "returned") =>
        \A a, b, c \in 1..Len(games) :
            (/\ a < b /\ b < c
             /\ games[a] # games[b]
             /\ RecordsOf(a) # {} /\ RecordsOf(b) # {} /\ RecordsOf(c) # {}
             /\ \A i \in RecordsOf(a), j \in RecordsOf(b) :
                    results[i].profit # results[j].profit)
            => C4_StakeOn(kelly_run(C4_Swap(games, a, b)).results, c)
                   # C4_StakeOn(results, c)

(***************************************************************************)
(* C5.  Every Bet Record of either simulator has bet_size > 0.             *)
(***************************************************************************)
C5_BetSizePositive ==
    \A j \in 1..Len(results) : RGt(results[j].bet_size, RZero)

(***************************************************************************)
(* C6.  For every Bet Record of either simulator, profit > 0 if and only   *)
(* if outcome = "win".                                                     *)
(***************************************************************************)
C6_ProfitIffWin ==
    \A j \in 1..Len(results) :
        RGt(results[j].profit, RZero) <=> results[j].outcome = "win"

\* A ledger with a winning record, a losing record, and a record of a bet
\* on the realized winner that made no profit.
C6_Witness ==
    /\ \E j \in 1..Len(results) :
          RGt(results[j].profit, RZero) /\ results[j].outcome = "win"
    /\ \E j \in 1..Len(results) :
          RLt(results[j].profit, RZero) /\ results[j].outcome = "loss"
    /\ \E j \in 1..Len(results) :
          /\ results[j].profit = RZero
          /\ results[j].outcome = "loss"
          /\ side_won(games[results[j].game_id + 1], results[j].bet_on)

(***************************************************************************)
(* C7.  For both simulators the ledger holds at most one Bet Record per    *)
(* consumed game, each restating its own game, in the order of the games   *)
(* in the input table.                                                     *)
(***************************************************************************)
C7_LedgerIsSubsequence ==
    /\ \A j \in 1..Len(results) :
          /\ results[j].game_id \in 0..(idx - 1)
          /\ results[j].odds =
                 side_odds(games[results[j].game_id + 1], results[j].bet_on)
          /\ results[j].model_prob =
                 side_model_prob(games[results[j].game_id + 1], results[j].bet_on)
    /\ \A i, j \in 1..Len(results) :
          i < j => results[i].game_id < results[j].game_id
    /\ pc = "returned" => ret.bets_df = results

\* A returned ledger of two bets with a game without a bet between them.
C7_Witness ==
    /\ pc = "returned"
    /\ Len(ret.bets_df) = 2
    /\ ret.bets_df[1].game_id = 0
    /\ ret.bets_df[2].game_id = 2

(***************************************************************************)
(* C8.  simulate_threshold_betting: the running total starts at 0; the     *)
(* cumulative_profit of every Bet Record is the sum of the profits of that *)
(* record and of all records before it; the total stands at the last       *)
(* record's cumulative_profit (0 with no record), whatever number of games *)
(* without a bet were consumed; and that total is the returned final       *)
(* bankroll.                                                               *)
(***************************************************************************)
C8_CumulativeProfit ==
    simulator = "threshold" =>
        /\ \A j \in 1..Len(results) :
              results[j].cumulative_profit = SumProfits(results, j)
        /\ bankroll = IF results = <<>> THEN RZero
                      ELSE results[Len(results)].cumulative_profit
        /\ pc = "returned" => ret.final_bankroll = bankroll

\* A returned run with two bets of non-zero profit around a game without a
\* bet, and a non-zero final bankroll.
C8_Witness ==
    /\ simulator = "threshold"
    /\ pc = "returned"
    /\ Len(results) = 2
    /\ results[1].game_id = 0
    /\ results[2].game_id = 2
    /\ results[1].profit # RZero
    /\ results[2].profit # RZero
    /\ ret.final_bankroll # RZero

(***************************************************************************)
(* C9.  simulate_kelly_betting: after every prefix of games the bankroll   *)
(* is starting_bankroll plus the sum of the profits of the Bet Records     *)
(* emitted so far; each record's bankroll field is that value after its    *)
(* bet, its roi field is (bankroll - starting_bankroll) /                  *)
(* starting_bankroll * 100; the returned final bankroll is                 *)
(* starting_bankroll plus the sum of all ledger profits.                   *)
(***************************************************************************)
C9_BankrollAccounting ==
    simulator = "kelly" =>
        /\ bankroll = RAdd(starting_bankroll, SumProfits(results, Len(results)))
        /\ \A j \in 1..Len(results) :
              /\ results[j].bankroll =
                     RAdd(starting_bankroll, SumProfits(results, j))
              /\ starting_bankroll # RZero
              /\ results[j].roi =
                     RMul(RDiv(RSub(results[j].bankroll, starting_bankroll),
                               starting_bankroll), RI(100))
        /\ pc = "returned" =>
              ret.final_bankroll =
                  RAdd(starting_bankroll,
                       SumProfits(ret.bets_df, Len(ret.bets_df)))

\* A returned run with a won and a lost bet and a game without a bet.
C9_Witness ==
    /\ simulator = "kelly"
    /\ pc = "returned"
    /\ Len(ret.bets_df) = 2
    /\ idx = 3
    /\ RGt(ret.bets_df[1].profit, RZero)
    /\ RLt(ret.bets_df[2].profit, RZero)
    /\ ret.final_bankroll # starting_bankroll

(***************************************************************************)
(* C10.  simulate_kelly_betting: the bankroll can reach zero or a negative *)
(* value; a bet that takes it there is booked in full (no clamp), and the  *)
(* call ends only by returning the bankroll as it stands after the last    *)
(* game of the table (or by the ZeroDivisionError of a row quoting odds    *)
(* of 0), never because of the bankroll.                                   *)
(***************************************************************************)
C10_NoClampNoHalt ==
    simulator = "kelly" =>
        /\ \A j \in 1..Len(results) :
              results[j].bankroll = RAdd(BankrollBefore(j), results[j].profit)
        /\ bankroll = IF results = <<>> THEN starting_bankroll
                      ELSE results[Len(results)].bankroll
        /\ pc = "loop" => idx <= Len(games)
        /\ pc = "returned" =>
              (idx = Len(games) /\ ret.final_bankroll = bankroll)
        /\ pc = "raised" =>
              /\ idx < Len(games)
              /\ side_odds(games[idx + 1], kelly_side(games[idx + 1])) = 0

\* A run returned with a negative bankroll after consuming a further game
\* once it had gone negative.
C10_Witness ==
    /\ simulator = "kelly"
    /\ pc = "returned"
    /\ RLt(ret.final_bankroll, RZero)
    /\ idx = Len(games)
    /\ results # <<>>
    /\ results[Len(results)].game_id < Len(games) - 1


(***************************************************************************)
(* Vocabulary of the direct calls.                                         *)
(***************************************************************************)
\* The call of function fn has returned a value.
HasReturned(fn) == call.fn = fn /\ answer.status = "returned"

(***************************************************************************)
(* C11. For any odds O and any stake S, calculate_payout(S, O, won=False)  *)
(* equals -S, and calculate_payout(S, O, won=True) is strictly greater     *)
(* than 0.                                                                 *)
(* As stated this fails: a won bet pays 0 with stake 0 or odds 0 and a     *)
(* negative amount with a negative stake (C11_PayoutSymmetry).  What holds *)
(* is C11_PayoutSymmetryInDomain: a lost bet returns -S for every odds and *)
(* stake, and a won bet returns more than 0 when S > 0 and O is not 0.     *)
(***************************************************************************)
C11_PayoutSymmetry ==
    HasReturned("calculate_payout") =>
        IF call.won
        THEN RGt(answer.value, RZero)
        ELSE answer.value = RNeg(call.bet_amount)

C11_PayoutSymmetryInDomain ==
    HasReturned("calculate_payout") =>
        /\ ~call.won => answer.value = RNeg(call.bet_amount)
        /\ (call.won /\ RGt(call.bet_amount, RZero) /\ call.odds # 0)
               => RGt(answer.value, RZero)

\* A won bet of 100 at -150 has paid 200/3; the same stake lost is covered
\* by the first conjunct on every lost call.
C11_Witness ==
    /\ HasReturned("calculate_payout")
    /\ call.won
    /\ call.bet_amount = DefaultBetSize
    /\ call.odds = -150
    /\ answer.value = Rat(200, 3)

(***************************************************************************)
(* C12. For a won bet calculate_payout returns stake * 100 / |odds| when   *)
(* odds < 0 and stake * odds / 100 when odds >= 0; the result is linear in *)
(* the stake: payout(k*S, O, won) = k * payout(S, O, won).                 *)
(***************************************************************************)
StakeMultipliers == {RI(-1), RZero, Half, RI(2), RI(3)}

C12_WonFormula ==
    IF call.odds < 0
    THEN RDiv(RMul(call.bet_amount, RI(100)), RI(Abs(call.odds)))
    ELSE RDiv(RMul(call.bet_amount, RI(call.odds)), RI(100))

C12_PayoutFormulaLinear ==
    HasReturned("calculate_payout") =>
        /\ call.won => answer.value = C12_WonFormula
        /\ \A k \in StakeMultipliers :
               calculate_payout(RMul(k, call.bet_amount), call.odds, call.won)
                   = RMul(k, answer.value)

\* A won favourite bet (3 at -150 pays 2) and, by the quantifier over the
\* calls, every won underdog bet.
C12_Witness ==
    /\ HasReturned("calculate_payout")
    /\ call.won
    /\ call.odds = -150
    /\ call.bet_amount = RI(3)
    /\ answer.value = RI(2)


(***************************************************************************)
(* C13. For all model_prob in [0,1] and all valid (non-zero) American      *)
(* odds, kelly_criterion(model_prob, odds) returns a value >= 0: a         *)
(* negative raw Kelly fraction (p*b - q)/b is clamped to 0.                *)
(***************************************************************************)
\* (p*b - q)/b of the call, b = decimal_odds - 1 (defined for odds # 0).
C13_RawKelly ==
    RDiv(RSub(RMul(call.model_prob, net_odds(call.odds)),
              RSub(ROne, call.model_prob)),
         net_odds(call.odds))

C13_KellyNonNegative ==
    (call.fn = "kelly_criterion" /\ call.odds # 0 /\ answer # Pending) =>
        /\ answer.status = "returned"
        /\ RGe(answer.value, RZero)
        /\ RLt(C13_RawKelly, RZero) => answer.value = RZero
        /\ RGe(C13_RawKelly, RZero) => answer.value = C13_RawKelly

\* p = 1/4 at -150: b = 2/3, raw Kelly = (1/6 - 3/4)/(2/3) = -7/8, returned 0.
C13_Witness ==
    /\ HasReturned("kelly_criterion")
    /\ call.model_prob = Quarter
    /\ call.odds = -150
    /\ C13_RawKelly = Rat(-7, 8)
    /\ answer.value = RZero

(***************************************************************************)
(* C14. In kelly_criterion the net odds b = decimal_odds - 1 is non-zero   *)
(* for every odds value the function can be called with, so the division   *)
(* by b never fails.                                                       *)
(* Violated: odds = 0 takes the odds >= 0 branch, decimal_odds = 1, b = 0, *)
(* and on Python floats the call raises ZeroDivisionError.                 *)
(***************************************************************************)
C14_NetOddsNonZero ==
    (call.fn = "kelly_criterion" /\ answer # Pending) =>
        /\ net_odds(call.odds) # RZero
        /\ answer.status = "returned"


(***************************************************************************)
(* C15. For any prob_home > 0 and prob_away > 0, the two values returned   *)
(* by remove_vig_proportional sum to 1 and keep the input ratio            *)
(* (true_home / true_away = prob_home / prob_away).                        *)
(***************************************************************************)
C15_VigRemoved ==
    ( /\ call.fn = "remove_vig_proportional"
      /\ RGt(call.prob_home, RZero)
      /\ RGt(call.prob_away, RZero)
      /\ answer # Pending ) =>
        /\ answer.status = "returned"
        /\ RAdd(answer.value[1], answer.value[2]) = ROne
        /\ RDiv(answer.value[1], answer.value[2])
               = RDiv(call.prob_home, call.prob_away)

\* Raw probabilities 3/4 and 1/2 (total 5/4) have become 3/5 and 2/5.
C15_Witness ==
    /\ HasReturned("remove_vig_proportional")
    /\ call.prob_home = ThreeQuarters
    /\ call.prob_away = Half
    /\ answer.value = <<Rat(3, 5), Rat(2, 5)>>

(***************************************************************************)
(* C16. remove_vig_proportional called with prob_home = 0 and              *)
(* prob_away = 0 ends in an explicit error; it never returns a NaN/Inf     *)
(* pair.                                                                   *)
(* Violated: on float64 arguments 0.0 / 0.0 is nan and the call returns    *)
(* (nan, nan).                                                             *)
(***************************************************************************)
C16_ZeroTotalFails ==
    ( /\ call.fn = "remove_vig_proportional"
      /\ call.prob_home = RZero
      /\ call.prob_away = RZero
      /\ answer # Pending ) =>
        /\ answer.status = "raised"
        /\ answer # Returned(<<NotANumber, NotANumber>>)

(***************************************************************************)
(* C17. american_to_probability called with odds exactly 0 fails           *)
(* explicitly instead of returning a probability.                          *)
(* Violated: odds = 0 takes the odds >= 0 branch and returns               *)
(* 100 / (0 + 100) = 1.                                                    *)
(***************************************************************************)
C17_ZeroOddsFails ==
    ( /\ call.fn = "american_to_probability"
      /\ call.odds = 0
      /\ answer # Pending ) =>
        answer.status = "raised"

(***************************************************************************)
(* C18. american_to_probability returns |odds| / (|odds| + 100) for        *)
(* odds < 0 and 100 / (odds + 100) for odds >= 0; -150 maps to 0.6 and     *)
(* +100 maps to 0.5, and for every non-zero odds the result lies strictly  *)
(* between 0 and 1.                                                        *)
(***************************************************************************)
C18_ImpliedProbability ==
    (call.fn = "american_to_probability" /\ answer # Pending) =>
        /\ answer.status = "returned"
        /\ call.odds < 0 =>
               answer.value = Rat(Abs(call.odds), Abs(call.odds) + 100)
        /\ call.odds >= 0 => answer.value = Rat(100, call.odds + 100)
        /\ call.odds = -150 => answer.value = Rat(6, 10)
        /\ call.odds = 100 => answer.value = Rat(5, 10)
        /\ call.odds # 0 =>
               RLt(RZero, answer.value) /\ RLt(answer.value, ROne)

C18_Witness ==
    /\ HasReturned("american_to_probability")
    /\ call.odds = -150
    /\ answer.value = Rat(3, 5)


(***************************************************************************)
(* C19. simulate_threshold_betting with edge_threshold = 0.05 and          *)
(* bet_size = 100 on the single game {home_odds: -150, away_odds: +130,    *)
(* model_prob_home: 0.70, market_prob_home: 0.58, home_win: 1} yields      *)
(* exactly one Bet Record, on home, with outcome win and profit            *)
(* 100 * (100/150) = 200/3, and a final bankroll equal to that profit.     *)
(***************************************************************************)
C19_Scenario ==
    /\ simulator = "threshold"
    /\ edge_threshold = Rat(5, 100)
    /\ bet_size = RI(100)
    /\ games = <<Game(Rat(70, 100), Rat(58, 100), -150, 130, 1)>>

C19_EndToEnd ==
    (C19_Scenario /\ pc = "returned") =>
        /\ Len(ret.bets_df) = 1
        /\ ret.bets_df[1].bet_on = "home"
        /\ ret.bets_df[1].edge = Rat(12, 100)
        /\ ret.bets_df[1].outcome = "win"
        /\ ret.bets_df[1].profit = Rat(200, 3)
        /\ ret.final_bankroll = ret.bets_df[1].profit

C19_Witness ==
    /\ C19_Scenario
    /\ pc = "returned"
    /\ idx = 1
    /\ Len(ret.bets_df) = 1
    /\ ret.final_bankroll = Rat(200, 3)


(***************************************************************************)
(* C20. For a non-empty ledger, calculate_roi_metrics reports              *)
(* max_drawdown = the maximum over ledger positions of (largest cumulative *)
(* profit seen up to that position minus the cumulative profit at that     *)
(* position), taking cumulative profit from the cumulative_profit column   *)
(* when present and from the running sum of profit otherwise; the value is *)
(* always >= 0, and for cumulative profits [50, 100, 40, 80] it is 60.     *)
(***************************************************************************)
\* Cumulative profit at ledger position i of the call.
C20_CumulativeAt(i) ==
    IF call.has_cumulative
    THEN call.bets_df[i].cumulative_profit
    ELSE SumProfits(call.bets_df, i)

\* x is the largest cumulative profit of positions 1..i.
C20_IsPeak(x, i) ==
    /\ \E j \in 1..i : C20_CumulativeAt(j) = x
    /\ \A j \in 1..i : RLe(C20_CumulativeAt(j), x)

\* d is the drawdown at position i.
C20_IsDrawdown(d, i) ==
    \E j \in 1..i :
        /\ C20_IsPeak(C20_CumulativeAt(j), i)
        /\ d = RSub(C20_CumulativeAt(j), C20_CumulativeAt(i))

C20_Positions == 1..Len(call.bets_df)

C20_MaxDrawdown ==
    (HasReturned("calculate_roi_metrics") /\ call.bets_df # <<>>) =>
        /\ \E i \in C20_Positions :
               C20_IsDrawdown(answer.value.max_drawdown, i)
        /\ \A i \in C20_Positions : \A j \in 1..i :
               RLe(RSub(C20_CumulativeAt(j), C20_CumulativeAt(i)),
                   answer.value.max_drawdown)
        /\ RGe(answer.value.max_drawdown, RZero)
        /\ [i \in C20_Positions |-> C20_CumulativeAt(i)]
               = <<RI(50), RI(100), RI(40), RI(80)>>
           => answer.value.max_drawdown = RI(60)

\* The ledger whose cumulative_profit column reads 100, 50 while its
\* profits sum to 50, 100: drawdown 50 from the column.
C20_Witness ==
    /\ HasReturned("calculate_roi_metrics")
    /\ call.has_cumulative
    /\ call.bets_df = <<Bet(50, 100, 100, "win"), Bet(50, 50, 100, "win")>>
    /\ answer.value.max_drawdown = RI(50)


(***************************************************************************)
(* C21. calculate_roi_metrics on an empty ledger returns a Metrics Record  *)
(* in which every field (n_bets, total_wagered, total_profit, roi_percent, *)
(* win_rate, avg_profit_per_bet, sharpe_ratio, max_drawdown) is 0, without *)
(* any division error, for any bet_size argument.                          *)
(***************************************************************************)
C21_EmptyLedgerAllZero ==
    ( /\ call.fn = "calculate_roi_metrics"
      /\ call.bets_df = <<>>
      /\ answer # Pending ) =>
        /\ answer.status = "returned"
        /\ answer.value.n_bets = 0
        /\ \A f \in {"total_wagered", "total_profit", "roi_percent",
                     "win_rate", "avg_profit_per_bet", "sharpe_ratio",
                     "max_drawdown"} :
               answer.value[f] = RZero

\* The empty ledger evaluated with a fixed bet_size of 100.
C21_Witness ==
    /\ HasReturned("calculate_roi_metrics")
    /\ call.bets_df = <<>>
    /\ call.bet_size = DefaultBetSize
    /\ answer.value.n_bets = 0

(***************************************************************************)
(* C24. For a non-empty ledger, calculate_roi_metrics sets total_wagered   *)
(* to n_bets * bet_size when a fixed bet_size is supplied and to the sum   *)
(* of the ledger's bet_size values otherwise, and sets roi_percent to      *)
(* total_profit / total_wagered * 100, or to 0 when total_wagered == 0.    *)
(* As stated (C24_RoiZeroOnlyAtZero) this fails for a negative             *)
(* total_wagered, where the code also reports 0.  What holds is            *)
(* C24_WageredAndRoi: roi_percent is the percentage when total_wagered > 0 *)
(* and 0 when total_wagered <= 0.                                          *)
(***************************************************************************)
RECURSIVE C24_SumBetSizes(_)
C24_SumBetSizes(j) ==
    IF j = 0 THEN RZero
    ELSE RAdd(C24_SumBetSizes(j - 1), call.bets_df[j].bet_size)

C24_Wagered ==
    IF call.bet_size # None
    THEN RMul(RI(Len(call.bets_df)), call.bet_size)
    ELSE C24_SumBetSizes(Len(call.bets_df))

C24_Percentage ==
    RMul(RDiv(SumProfits(call.bets_df, Len(call.bets_df)), C24_Wagered),
         RI(100))

C24_NonEmptyReturned ==
    HasReturned("calculate_roi_metrics") /\ call.bets_df # <<>>

C24_RoiZeroOnlyAtZero ==
    C24_NonEmptyReturned =>
        /\ answer.value.total_wagered = C24_Wagered
        /\ answer.value.roi_percent =
               IF C24_Wagered = RZero THEN RZero ELSE C24_Percentage

C24_WageredAndRoi ==
    C24_NonEmptyReturned =>
        /\ answer.value.n_bets = Len(call.bets_df)
        /\ answer.value.total_wagered = C24_Wagered
        /\ answer.value.total_profit
               = SumProfits(call.bets_df, Len(call.bets_df))
        /\ answer.value.roi_percent =
               IF RGt(C24_Wagered, RZero) THEN C24_Percentage ELSE RZero

\* Stakes 100 and 60 summed from the column: profit 50 - 60 on 160 wagered
\* is -6.25 percent.
C24_Witness ==
    /\ HasReturned("calculate_roi_metrics")
    /\ call.bet_size = None
    /\ call.bets_df = <<Bet(50, 50, 100, "win"), Bet(-60, 40, 60, "loss")>>
    /\ answer.value.total_wagered = RI(160)
    /\ answer.value.roi_percent = Rat(-25, 4)

(***************************************************************************)
(* C25. calculate_roi_metrics returns sharpe_ratio = 0 and raises no error *)
(* whenever the standard deviation of the ledger's profits is zero or      *)
(* undefined (all profits equal, or a single-bet ledger).                  *)
(* Violated: on three or more equal profits that no float holds exactly    *)
(* the computed standard deviation can be a rounding residue > 0, and the  *)
(* sharpe_ratio is then of order 1e16.                                     *)
(***************************************************************************)
C25_ProfitsEqual ==
    \A i \in 1..Len(call.bets_df) :
        call.bets_df[i].profit = call.bets_df[1].profit

C25_SharpeZero ==
    (C24_NonEmptyReturned /\ C25_ProfitsEqual) =>
        answer.value.sharpe_ratio = RZero


(***************************************************************************)
(* C27. process_betting_odds is pure and order-preserving: it leaves the   *)
(* input odds table unchanged, returns exactly one output row per input    *)
(* row in the same order, and for every row with non-zero odds the added   *)
(* market_prob_home and market_prob_away sum to 1 and vig_percent equals   *)
(* (home_prob_raw + away_prob_raw - 1) * 100.                              *)
(***************************************************************************)
C27_InputColumns == {"game_id", "home_odds", "away_odds"}

C27_RowDerived(row) ==
    (row.home_odds # 0 /\ row.away_odds # 0) =>
        /\ RAdd(row.market_prob_home, row.market_prob_away) = ROne
        /\ row.vig_percent =
               RMul(RSub(RAdd(row.home_prob_raw, row.away_prob_raw), ROne),
                    RI(100))

C27_PureOrderPreserving ==
    (call.fn = "process_betting_odds" /\ answer # Pending) =>
        /\ answer.status = "returned"
        /\ answer.value.odds_df = call.odds_df
        /\ Len(answer.value.result) = Len(call.odds_df)
        /\ \A i \in 1..Len(call.odds_df) :
               /\ \A c \in C27_InputColumns :
                      answer.value.result[i][c] = call.odds_df[i][c]
               /\ C27_RowDerived(answer.value.result[i])

\* Two quotes in the order BOS, TOR: the second row has the 50/50 market of
\* the -110/-110 quote and its vig of 100/21 percent.
C27_Witness ==
    /\ HasReturned("process_betting_odds")
    /\ call.odds_df = <<Quote("BOS", -150, 130), Quote("TOR", -110, -110)>>
    /\ answer.value.result[1].home_prob_raw = Rat(3, 5)
    /\ answer.value.result[2].market_prob_home = Half
    /\ answer.value.result[2].vig_percent = Rat(100, 21)


(***************************************************************************)
(* C26. In both simulators, for every game edge_away equals -edge_home;    *)
(* consequently, with edge_threshold > 0 at most one side can clear the    *)
(* threshold, and both sides can clear it only when edge_threshold <= 0.   *)
(* (The Kelly simulator's test is edge > 0: at most one side passes it.)   *)
(***************************************************************************)
C26_BothClear(game) ==
    IF simulator = "threshold"
    THEN /\ RGe(edge_home(game), edge_threshold)
         /\ RGe(edge_away(game), edge_threshold)
    ELSE /\ RGt(edge_home(game), RZero)
         /\ RGt(edge_away(game), RZero)

C26_EdgesOpposite ==
    \A k \in Processed :
        /\ edge_away(games[k]) = RNeg(edge_home(games[k]))
        /\ C26_BothClear(games[k]) =>
               (simulator = "threshold" /\ RLe(edge_threshold, RZero))
        /\ \A j \in RecordsOf(k) :
               results[j].edge =
                   IF results[j].bet_on = "home"
                   THEN edge_home(games[k])
                   ELSE RNeg(edge_home(games[k]))

\* Threshold 0 and a game without edge: both sides clear, home is booked;
\* and an away bet whose edge 1/4 is minus the home edge.
C26_Witness ==
    /\ simulator = "threshold"
    /\ edge_threshold = RZero
    /\ \E k \in Processed :
           /\ edge_home(games[k]) = RZero
           /\ C26_BothClear(games[k])
           /\ \E j \in RecordsOf(k) : results[j].bet_on = "home"
    /\ \E k \in Processed : \E j \in RecordsOf(k) :
           /\ results[j].bet_on = "away"
           /\ results[j].edge = Quarter
           /\ edge_home(games[k]) = RNeg(Quarter)

(***************************************************************************)
(* C28. In every Bet Record of either simulator, outcome is "win" exactly  *)
(* when the side bet on is the side that actually won, and "loss" exactly  *)
(* when it did not, for any odds and any stake the simulator accepts.      *)
(* Violated: outcome is derived from profit > 0, so a won bet at odds 0 or *)
(* with bet_size 0 (profit 0) is labelled "loss", and with a negative      *)
(* bet_size the labels are exchanged.                                      *)
(***************************************************************************)
C28_OutcomeIsRealizedSide ==
    \A k \in Processed : \A j \in RecordsOf(k) :
        /\ results[j].outcome \in {"win", "loss"}
        /\ results[j].outcome = "win" <=>
               \/ results[j].bet_on = "home" /\ games[k].home_win = 1
               \/ results[j].bet_on = "away" /\ games[k].home_win = 0

(***************************************************************************)
(* C29. In simulate_kelly_betting with starting_bankroll > 0,              *)
(* 0 < kelly_fraction <= 1, model_prob_home in [0,1] and non-zero odds,    *)
(* every placed stake is at most the bankroll held just before the bet     *)
(* (kelly_criterion never exceeds 1), so after any sequence of games the   *)
(* bankroll is >= 0; once the bankroll is so small that the stake falls    *)
(* below 1.0 no further loss can occur (no bet is sized from a bankroll    *)
(* below 1).                                                               *)
(***************************************************************************)
C29_InDomain ==
    /\ simulator = "kelly"
    /\ RGt(starting_bankroll, RZero)
    /\ RGt(kelly_fraction, RZero) /\ RLe(kelly_fraction, ROne)
    /\ \A k \in 1..Len(games) :
           /\ games[k].home_odds # 0 /\ games[k].away_odds # 0
           /\ RLe(RZero, games[k].model_prob_home)
           /\ RLe(games[k].model_prob_home, ROne)

C29_StakeWithinBankroll ==
    C29_InDomain =>
        /\ pc # "raised"
        /\ RGe(bankroll, RZero)
        /\ \A j \in 1..Len(results) :
               /\ RLe(results[j].bet_size, BankrollBefore(j))
               /\ RGe(BankrollBefore(j), ROne)
               /\ RGe(results[j].bankroll, RZero)
               /\ RLe(kelly_criterion(results[j].model_prob,
                                      results[j].odds).value, ROne)

\* Full Kelly on a certain win at +200 that is lost: the whole bankroll was
\* staked, 0 is left, and the games after it have no Bet Record.
C29_Witness ==
    /\ C29_InDomain
    /\ kelly_fraction = ROne
    /\ pc = "returned"
    /\ bankroll = RZero
    /\ \E j \in 1..Len(results) :
           /\ results[j].bet_size = BankrollBefore(j)
           /\ j = Len(results)
           /\ results[j].game_id + 1 < Len(games)


C23_MalformedGameSkipped ==
    \A k \in 1..Len(games) :
        (~numeric_row(games[k]) /\ idx >= k - 1) =>
            /\ pc # "raised"
            /\ pc = "returned" => idx = Len(games)


(***************************************************************************)
(* C30. For each data-source client, a request with use_cache=True whose   *)
(* cache_path already holds a non-null payload returns that payload        *)
(* without issuing an HTTP request; otherwise exactly one HTTP request is  *)
(* issued and, if it succeeds, its payload is written to the cache (also   *)
(* when use_cache=False), so that a later use_cache=True call for the same *)
(* path issues no request; a failed request leaves the cache unchanged.    *)
(* As stated (C30_AsStated) this fails twice: a cache file that is not     *)
(* JSON makes the use_cache=True call raise without any request, and a     *)
(* fetched JSON null is written but read back as "nothing cached", so the  *)
(* later call requests again.  C30_Caching is what holds.                  *)
(***************************************************************************)
\* What the cache held at the call's cache_path when the call began.
C30_Held ==
    IF reply.cache_path = NoPath THEN "absent"
    ELSE reply.before[reply.cache_path]

C30_Looked == reply.use_cache /\ reply.cache_path # NoPath

\* The cache after a successful fetch.
C30_Stored ==
    IF reply.cache_path = NoPath THEN reply.before
    ELSE [reply.before EXCEPT ![reply.cache_path] = reply.value]

C30_Fetched ==
    /\ reply.requests = 1
    /\ reply.outcome = "returned" => cache = C30_Stored
    /\ reply.outcome = "raised" => cache = reply.before

C30_Call ==
    reply # NoReply =>
        /\ (C30_Looked /\ C30_Held \in Payloads) =>
               /\ reply.requests = 0
               /\ reply.outcome = "returned"
               /\ reply.value = C30_Held
               /\ cache = reply.before
        /\ (C30_Looked /\ C30_Held = "corrupt") =>
               /\ reply.requests = 0
               /\ reply.outcome = "raised"
               /\ cache = reply.before
        /\ ~(C30_Looked /\ C30_Held \in Payloads \cup {"corrupt"}) =>
               C30_Fetched

\* The call before fetched a payload for a path, this call asks for the
\* same path with use_cache=True.
C30_Refetch ==
    /\ reply.outcome = "returned"
    /\ reply.requests = 1
    /\ reply.cache_path # NoPath
    /\ reply'.cache_path = reply.cache_path
    /\ reply'.use_cache

C30_Caching ==
    /\ []C30_Call
    /\ [][(C30_Refetch /\ reply.value # "null") =>
              (reply'.requests = 0 /\ reply'.value = reply.value)]_vars

C30_CallAsStated ==
    reply # NoReply =>
        IF C30_Looked /\ C30_Held \in Payloads
        THEN reply.requests = 0 /\ reply.value = C30_Held
        ELSE C30_Fetched

C30_AsStated ==
    /\ []C30_CallAsStated
    /\ [][C30_Refetch => reply'.requests = 0]_vars

\* A client that has issued a request before is served "p2" from the cache
\* without a request.
C30_Witness ==
    /\ reply # NoReply
    /\ last_request
    /\ C30_Looked
    /\ reply.requests = 0
    /\ reply.outcome = "returned"
    /\ reply.value = "p2"
    /\ cache[reply.cache_path] = "p2"

=============================================================================
